---- MODULE Spec2Model ----
(***************************************************************************)
(* Model of the validation utilities of kitium-ai/schemas                  *)
(* (src/src/validators/index.ts, the wrappers of                           *)
(* src/src/integrations/index.ts, the utilities of src/unnamed/part_009)   *)
(* and of its request validation for Express                               *)
(* (src/src/middleware/express.ts) and Fastify (src/unnamed/part_008).     *)
(*                                                                         *)
(* A JavaScript object is a record whose DOMAIN is the set of its own      *)
(* properties: a property that is not set (reads as undefined) is a key    *)
(* that is absent from the record.  A call ends in a completion: either    *)
(* "normal" with a value or "throw" with an exception.                     *)
(***************************************************************************)
EXTENDS Integers, Sequences, FiniteSets, TLC

VARIABLES
    op,         \* name of the exported function that was called last
    schema,     \* its schema argument
    data,       \* its data argument
    fields,     \* the fields argument of partialValidate
    rules,      \* the rules argument of validateWithCrossFields
    ret,        \* completion of the call ("pending" while a promise is unsettled)
    condCalls,  \* the rule.condition invocations the call made, in order
    schemaMap,  \* the schemas argument of validateMultiple, as its entries
    condition,  \* the condition argument of validateConditional
    items,      \* the items argument of validateBatch and of a batch validator
    stage,      \* how far an Express request has come through its route
    options,    \* the ValidationOptions the route's middleware was built with
    logger,     \* the module logger of the Express middleware
    req,        \* the Express request
    sent,       \* the responses sent on res, in order
    nextCalls,  \* how often the middleware called next()
    logs,       \* the logger calls made, in order
    handlerBody, \* req.body as the route handler found it
    schemaList, \* the schemas argument of combineSchemas
    calls,      \* the validation calls of one event loop, in the order they started
    framework,  \* the web framework a validated route is registered with
    route,      \* the validation middlewares (hooks) of that route, in order
    steps       \* what each middleware (hook) run of the request did, in order

coreVars == <<op, schema, data, fields, rules, ret, condCalls, schemaMap, condition, items>>
expressVars == <<stage, options, logger, req, sent, nextCalls, logs, handlerBody>>
utilVars == <<schemaList>>
asyncVars == <<calls>>
routeVars == <<framework, route, steps>>
vars == <<coreVars, expressVars, utilVars, asyncVars, routeVars>>

(***************************************************************************)
(* Bounds                                                                  *)
(***************************************************************************)
MaxNum == 1        \* numbers range over -1 .. MaxNum
MaxRules == 2      \* longest list of cross-field rules
MaxFields == 2     \* longest fields list given to partialValidate
MaxItems == 2      \* longest batch
MaxSchemas == 2    \* longest list of schemas given to combineSchemas
MaxCalls == 3      \* most validation calls started in one event loop

(***************************************************************************)
(* JavaScript values (`unknown`)                                           *)
(***************************************************************************)
Undefined == [t |-> "undefined"]
Null == [t |-> "null"]
Num(k) == [t |-> "number", n |-> k]
Numbers == {Num(k) : k \in (0 - 1) .. MaxNum}
Objects == [t : {"object"}, a : Numbers \cup {Undefined}, b : Numbers \cup {Undefined}]
Values == Numbers \cup {Null} \cup Objects

\* ToBoolean(v): the truthiness test of `cond && v` and `if (v)`
Truthy(v) ==
    CASE v.t = "undefined" -> FALSE
      [] v.t = "null" -> FALSE
      [] v.t = "number" -> v.n # 0
      [] OTHER -> TRUE

(***************************************************************************)
(* Completions                                                             *)
(***************************************************************************)
Normal(v) == [kind |-> "normal", value |-> v]
Throw(e) == [kind |-> "throw", exc |-> e]
Pending == [kind |-> "pending"]
Fulfilled(v) == [kind |-> "fulfilled", value |-> v]
Rejected(e) == [kind |-> "rejected", exc |-> e]

(***************************************************************************)
(* The schema engine (zod) as the validators see it: schema.parse(data)    *)
(* returns the output value, throws a ZodError carrying the list of        *)
(* issues, or throws something else.                                       *)
(***************************************************************************)
Key(s) == [k |-> "key", s |-> s]
Index(i) == [k |-> "index", i |-> i]
Issue(code, path, message) == [code |-> code, path |-> path, message |-> message]

\* ZodError: `errors` is the issue list
ZodError(issues) == [name |-> "ZodError", errors |-> issues]
\* any other exception (TypeError, Error("Async refinement encountered ..."))
OtherError == [name |-> "Error"]

IsZodError(e) == e.name = "ZodError"

Schemas ==
    { "NumberSchema",    \* z.number().min(0)
      "PairSchema",      \* z.object({a: z.number().min(0), b: z.number().min(0)})
      "DefaultSchema",   \* z.object({a: z.number().min(0), b: z.number().min(0).default(1)})
      "RangeSchema",     \* PairSchema.superRefine(a <= b, issue at path ["range", 0])
      "ThrowingSchema",  \* z.unknown().refine(v => v.a !== "x"): TypeError on null, undefined
      "AsyncSchema" }    \* z.number().refine(async n => n !== 1)

\* issues of z.number().min(0) applied to the value found at `path`
NumberIssues(v, path) ==
    IF v.t = "undefined" THEN <<Issue("invalid_type", path, "Required")>>
    ELSE IF v.t # "number" THEN <<Issue("invalid_type", path, "Expected number")>>
    ELSE IF v.n < 0 THEN <<Issue("too_small", path, "Number must be greater than or equal to 0")>>
    ELSE <<>>

ObjectTypeIssue == <<Issue("invalid_type", <<>>, "Expected object")>>

RangeIssues(v) ==
    IF v.a.t = "number" /\ v.b.t = "number" /\ v.a.n > v.b.n
    THEN <<Issue("custom", <<Key("range"), Index(0)>>, "Invalid input")>>
    ELSE <<>>

\* the issues the schema reports for the value, in the engine's order
SchemaIssues(s, v) ==
    CASE s = "NumberSchema" -> NumberIssues(v, <<>>)
      [] s = "PairSchema" ->
           IF v.t # "object" THEN ObjectTypeIssue
           ELSE NumberIssues(v.a, <<Key("a")>>) \o NumberIssues(v.b, <<Key("b")>>)
      [] s = "DefaultSchema" ->
           IF v.t # "object" THEN ObjectTypeIssue
           ELSE NumberIssues(v.a, <<Key("a")>>)
                \o (IF v.b.t = "undefined" THEN <<>> ELSE NumberIssues(v.b, <<Key("b")>>))
      [] s = "RangeSchema" ->
           IF v.t # "object" THEN ObjectTypeIssue
           ELSE NumberIssues(v.a, <<Key("a")>>) \o NumberIssues(v.b, <<Key("b")>>)
                \o RangeIssues(v)
      [] s = "AsyncSchema" ->
           IF v.t # "number" THEN NumberIssues(v, <<>>)
           ELSE IF v.n = 1 THEN <<Issue("custom", <<>>, "Invalid input")>>
           ELSE <<>>
      [] OTHER -> <<>>

\* the output value of an accepting schema: an object schema keeps the
\* properties of its shape only and applies the defaults
SchemaOutput(s, v) ==
    IF s \in {"PairSchema", "DefaultSchema", "RangeSchema"}
    THEN [t |-> "object", a |-> v.a,
          b |-> IF s = "DefaultSchema" /\ v.b.t = "undefined" THEN Num(1) ELSE v.b]
    ELSE v

\* the schema has an asynchronous refinement
HasAsyncStep(s) == s = "AsyncSchema"

\* schema.parseAsync(data), as the completion the await observes
parseAsync(s, v) ==
    IF s = "ThrowingSchema" /\ v.t \in {"null", "undefined"} THEN Throw(OtherError)
    ELSE IF SchemaIssues(s, v) # <<>> THEN Throw(ZodError(SchemaIssues(s, v)))
    ELSE Normal(SchemaOutput(s, v))

\* schema.parse(data): a synchronous parse that reaches an asynchronous
\* refinement throws a plain Error
parse(s, v) ==
    IF HasAsyncStep(s) /\ v.t = "number" THEN Throw(OtherError)
    ELSE parseAsync(s, v)

(***************************************************************************)
(* src/src/validators/index.ts                                             *)
(***************************************************************************)
\* String(segment), as Array.prototype.join applies it to each element
SegmentString(seg) == IF seg.k = "key" THEN seg.s ELSE ToString(seg.i)

RECURSIVE join(_, _)
join(path, sep) ==
    IF Len(path) = 0 THEN ""
    ELSE IF Len(path) = 1 THEN SegmentString(Head(path))
    ELSE SegmentString(Head(path)) \o sep \o join(Tail(path), sep)

\* (err) => ({field: err.path.join('.'), message: err.message, code: err.code})
toDetail(err) == [field |-> join(err.path, "."), message |-> err.message, code |-> err.code]

\* variant: only the first violation is converted
mapDetailsFirstOnly(errors) == <<toDetail(errors[1])>>

mapDetails(errors) == [i \in 1 .. Len(errors) |-> toDetail(errors[i])]

UnknownErrorDetail ==
    [field |-> "unknown", message |-> "An unknown validation error occurred", code |-> "UNKNOWN_ERROR"]

\* variant: no fallback detail for an exception that is not a ZodError
catchResultNoFallback(error) ==
    IF IsZodError(error)
    THEN [success |-> FALSE, errors |-> mapDetails(error.errors)]
    ELSE [success |-> FALSE, errors |-> <<>>]

\* variant: the fallback detail carries the name of the raw exception
catchResultRawMessage(error) ==
    IF IsZodError(error)
    THEN [success |-> FALSE, errors |-> mapDetails(error.errors)]
    ELSE [success |-> FALSE,
          errors |-> <<[field |-> "unknown", message |-> error.name, code |-> "UNKNOWN_ERROR"]>>]

\* the catch block shared by validate and validateAsync
catchResult(error) ==
    IF IsZodError(error)
    THEN [success |-> FALSE, errors |-> mapDetails(error.errors)]
    ELSE [success |-> FALSE, errors |-> <<UnknownErrorDetail>>]

validate(s, v) ==
    LET c == parse(s, v)
    IN  IF c.kind = "normal"
        THEN Normal([success |-> TRUE, data |-> c.value])
        ELSE Normal(catchResult(c.exc))

\* validateOrThrow: `return schema.parse(data) as T`
validateOrThrow(s, v) == parse(s, v)

\* variant: only a ZodError is caught, anything else rejects the promise
validateAsyncRejects(s, v) ==
    LET c == parseAsync(s, v)
    IN  IF c.kind = "normal"
        THEN Fulfilled([success |-> TRUE, data |-> c.value])
        ELSE IF IsZodError(c.exc) THEN Fulfilled(catchResult(c.exc))
        ELSE Rejected(c.exc)

\* validateAsync, from the resumption of `await schema.parseAsync(data)` to
\* the settlement of the promise the async function returned
validateAsync(s, v) ==
    LET c == parseAsync(s, v)
    IN  IF c.kind = "normal"
        THEN Fulfilled([success |-> TRUE, data |-> c.value])
        ELSE Fulfilled(catchResult(c.exc))

\* An activation of validate or validateAsync: its arguments are the
\* parameters of that activation, and `done` tells how many calls had started
\* when it returned its result (0 while it is suspended at the await).
Frame(fn, s, v, completion, done) ==
    [fn |-> fn, schema |-> s, data |-> v, ret |-> completion, done |-> done]

\* validateAsync(schema, data) up to `await schema.parseAsync(data)`: the
\* activation is suspended and the caller holds the unsettled promise
startAsync(cs, s, v) == Append(cs, Frame("validateAsync", s, v, Pending, 0))

\* variant: the continuation reads the arguments of the call started last, as
\* if they were kept in one place shared by all the calls
resumeAsyncSharedArguments(cs, i) ==
    [cs EXCEPT ![i] = Frame("validateAsync", cs[i].schema, cs[i].data,
                            validateAsync(cs[Len(cs)].schema, cs[Len(cs)].data), Len(cs))]

\* the continuation of activation i after the await, lines 254-280
resumeAsync(cs, i) ==
    [cs EXCEPT ![i] = Frame("validateAsync", cs[i].schema, cs[i].data,
                            validateAsync(cs[i].schema, cs[i].data), Len(cs))]

\* validate(schema, data) runs to completion without suspending
callSync(cs, s, v) ==
    Append(cs, Frame("validate", s, v, validate(s, v), Len(cs) + 1))

\* Array.prototype.join on strings
RECURSIVE joinStrings(_, _)
joinStrings(parts, sep) ==
    IF Len(parts) = 0 THEN ""
    ELSE IF Len(parts) = 1 THEN Head(parts)
    ELSE Head(parts) \o sep \o joinStrings(Tail(parts), sep)

\* variant: the entries are joined by ", "
formatValidationErrorsComma(errors) ==
    Normal(joinStrings([i \in 1 .. Len(errors) |->
                           errors[i].field \o ": " \o errors[i].message], ", "))

formatValidationErrors(errors) ==
    Normal(joinStrings([i \in 1 .. Len(errors) |->
                           errors[i].field \o ": " \o errors[i].message], "; "))

\* the optional `fields?: string[]` argument
NoFields == [given |-> FALSE]
GivenFields(list) == [given |-> TRUE, list |-> list]

\* variant: only the first entry of the list is looked at
includesFirstOnly(list, x) == list[1] = x

includes(list, x) == \E i \in 1 .. Len(list) : list[i] = x

partialValidate(s, v, f) ==
    IF ~f.given \/ Len(f.list) = 0
    THEN validate(s, v)
    ELSE LET result == validate(s, v).value
             Keep(err) == includes(f.list, err.field)
         IN  IF "errors" \in DOMAIN result
             THEN Normal([result EXCEPT !.errors = SelectSeq(result.errors, Keep)])
             ELSE Normal(result)

\* variant: the batch stops at the first item that fails
validateBatchStopAtFailure(s, its) ==
    LET all == [i \in 1 .. Len(its) |-> validate(s, its[i]).value]
        failing == {i \in 1 .. Len(its) : ~all[i].success}
        last == IF failing = {} THEN Len(its)
                ELSE CHOOSE i \in failing : \A j \in failing : i <= j
    IN  Normal(SubSeq(all, 1, last))

\* items.map((item) => validate(schema, item))
validateBatch(s, its) == Normal([i \in 1 .. Len(its) |-> validate(s, its[i]).value])

\* variant: only a ZodError is swallowed
isValidRethrow(s, v) ==
    LET c == parse(s, v)
    IN  IF c.kind = "normal" THEN Normal(TRUE)
        ELSE IF IsZodError(c.exc) THEN Normal(FALSE)
        ELSE c

isValid(s, v) ==
    IF parse(s, v).kind = "normal" THEN Normal(TRUE) ELSE Normal(FALSE)

\* new ValidationError(errors)
ValidationError(errors) == [name |-> "ValidationError", errors |-> errors]

\* the condition closures of the cross-field rules; each is total
Condition(name, v) ==
    CASE name = "aNotAboveB" ->
           v.t = "object" /\ v.a.t = "number" /\ v.b.t = "number" /\ v.a.n <= v.b.n
      [] name = "bProvided" -> v.t = "object" /\ v.b.t # "undefined"
      [] name = "isPositive" -> v.t = "number" /\ v.n > 0
      [] name = "never" -> FALSE
      [] OTHER -> TRUE

RuleCatalogue ==
    { [condition |-> "aNotAboveB", message |-> "a must not exceed b", fields |-> <<"a", "b">>],
      [condition |-> "bProvided", message |-> "b is required", fields |-> <<"b">>],
      [condition |-> "isPositive", message |-> "must be positive", fields |-> <<"value">>] }

\* the errors one failed rule pushes: one per entry of rule.fields
ruleErrors(rule) ==
    [i \in 1 .. Len(rule.fields) |->
        [field |-> rule.fields[i], message |-> rule.message,
         code |-> "CROSS_FIELD_VALIDATION_FAILED"]]

\* `for (const rule of rules)`, from rule number i on: the errors pushed and
\* the condition invocations made
RECURSIVE ruleLoop(_, _, _)
ruleLoop(v, rs, i) ==
    IF i > Len(rs) THEN [errors |-> <<>>, calls |-> <<>>]
    ELSE LET rest == ruleLoop(v, rs, i + 1)
             call == [rule |-> i, arg |-> v]
         IN  IF ~Condition(rs[i].condition, v)
             THEN [errors |-> ruleErrors(rs[i]) \o rest.errors, calls |-> <<call>> \o rest.calls]
             ELSE [errors |-> rest.errors, calls |-> <<call>> \o rest.calls]

\* variant: the rules run whatever the base result
crossFieldPassIgnoringBase(s, v, rs) ==
    IF Truthy(v) THEN ruleLoop(v, rs, 1) ELSE [errors |-> <<>>, calls |-> <<>>]

\* lines 407-422: base validation, then the rules
crossFieldPass(s, v, rs) ==
    LET baseResult == validate(s, v).value
    IN  IF baseResult.success /\ Truthy(v)
        THEN ruleLoop(v, rs, 1)
        ELSE [errors |-> <<>>, calls |-> <<>>]

\* variant: the rules are numbered from 1
ruleKeyOneBased(idx) == "rule_" \o ToString(idx + 1)

ruleKey(idx) == "rule_" \o ToString(idx)

fieldDependencies(rs) ==
    [k \in {ruleKey(i - 1) : i \in 1 .. Len(rs)} |->
        rs[CHOOSE i \in 1 .. Len(rs) : ruleKey(i - 1) = k].fields]

validateWithCrossFields(s, v, rs) ==
    LET baseResult == validate(s, v).value
        crossFieldErrors == crossFieldPass(s, v, rs).errors
        baseErrors == IF "errors" \in DOMAIN baseResult THEN baseResult.errors ELSE <<>>
    IN  IF baseResult.success /\ Len(crossFieldErrors) = 0
        THEN Normal([success |-> TRUE, data |-> baseResult.data,
                     errors |-> baseErrors \o crossFieldErrors,
                     fieldDependencies |-> fieldDependencies(rs)])
        ELSE Normal([success |-> FALSE,
                     errors |-> baseErrors \o crossFieldErrors,
                     fieldDependencies |-> fieldDependencies(rs)])

\* (data as Record<string, unknown>)?.[key]
property(v, key) == IF v.t = "object" THEN v[key] ELSE Undefined

\* variant: the errors keep their unprefixed field
multipleEntryNoPrefix(v, entry) ==
    LET result == validate(entry.schema, property(v, entry.key)).value
    IN  IF ~result.success /\ "errors" \in DOMAIN result
        THEN [errors |-> result.errors, validated |-> <<>>]
        ELSE IF "data" \in DOMAIN result /\ Truthy(result.data)
        THEN [errors |-> <<>>, validated |-> entry.key :> result.data]
        ELSE [errors |-> <<>>, validated |-> <<>>]

\* one schema of the map applied to its property: the errors it pushes,
\* re-addressed under the key, and the entry it adds to `validated`
multipleEntry(v, entry) ==
    LET result == validate(entry.schema, property(v, entry.key)).value
    IN  IF ~result.success /\ "errors" \in DOMAIN result
        THEN [errors |-> [i \in 1 .. Len(result.errors) |->
                             [result.errors[i] EXCEPT
                                 !.field = entry.key \o "." \o result.errors[i].field]],
              validated |-> <<>>]
        ELSE IF "data" \in DOMAIN result /\ Truthy(result.data)
        THEN [errors |-> <<>>, validated |-> entry.key :> result.data]
        ELSE [errors |-> <<>>, validated |-> <<>>]

\* `for (const [key, schema] of Object.entries(schemas))`, from entry i on
RECURSIVE multipleLoop(_, _, _)
multipleLoop(v, entries, i) ==
    IF i > Len(entries) THEN [errors |-> <<>>, validated |-> <<>>]
    ELSE LET mine == multipleEntry(v, entries[i])
             rest == multipleLoop(v, entries, i + 1)
         IN  [errors |-> mine.errors \o rest.errors,
              validated |-> mine.validated @@ rest.validated]

validateMultiple(entries, v) ==
    LET loop == multipleLoop(v, entries, 1)
    IN  IF Len(loop.errors) = 0
        THEN Normal([success |-> TRUE, data |-> loop.validated])
        ELSE Normal([success |-> FALSE, errors |-> loop.errors])

\* variant: the schema is applied whatever the condition says
validateConditionalAlways(s, v, c) == validate(s, v)

validateConditional(s, v, c) ==
    IF ~Condition(c, v)
    THEN Normal([success |-> TRUE, data |-> v])
    ELSE validate(s, v)

(***************************************************************************)
(* src/unnamed/part_009 (utility functions for middleware validation)      *)
(***************************************************************************)
\* schema.safeParse(item): a ZodError becomes a failure, anything else
\* propagates
safeParse(s, v) ==
    LET c == parse(s, v)
    IN  IF c.kind = "normal" THEN Normal([success |-> TRUE, data |-> c.value])
        ELSE IF IsZodError(c.exc) THEN Normal([success |-> FALSE, error |-> c.exc])
        ELSE c

\* variant: the errors are addressed by the item's position counted from 1
batchItemOneBased(s, item, index) ==
    LET result == safeParse(s, item).value
    IN  [index |-> index,
         success |-> result.success,
         data |-> IF result.success THEN result.data ELSE Null,
         errors |-> IF ~result.success
                    THEN [i \in 1 .. Len(result.error.errors) |->
                             [field |-> ToString(index + 1) \o "."
                                        \o join(result.error.errors[i].path, "."),
                              message |-> result.error.errors[i].message,
                              code |-> result.error.errors[i].code]]
                    ELSE <<>>]

\* the callback of items.map, lines 199-213
batchItem(s, item, index) ==
    LET result == safeParse(s, item).value
    IN  [index |-> index,
         success |-> result.success,
         data |-> IF result.success THEN result.data ELSE Null,
         errors |-> IF ~result.success
                    THEN [i \in 1 .. Len(result.error.errors) |->
                             [field |-> ToString(index) \o "."
                                        \o join(result.error.errors[i].path, "."),
                              message |-> result.error.errors[i].message,
                              code |-> result.error.errors[i].code]]
                    ELSE <<>>]

\* results.flatMap((r) => r.errors), from result i on
RECURSIVE flatErrors(_, _)
flatErrors(results, i) ==
    IF i > Len(results) THEN <<>>
    ELSE results[i].errors \o flatErrors(results, i + 1)

\* createBatchValidator(schema)(items)
batchValidator(s, its) ==
    LET throwing == {i \in 1 .. Len(its) : safeParse(s, its[i]).kind = "throw"}
    IN  IF throwing # {}
        THEN safeParse(s, its[CHOOSE i \in throwing : \A j \in throwing : i <= j])
        ELSE LET results == [i \in 1 .. Len(its) |-> batchItem(s, its[i], i - 1)]
                 allErrors == flatErrors(results, 1)
                 Succeeded(r) == r.success
                 kept == SelectSeq(results, Succeeded)
                 allData == [i \in 1 .. Len(kept) |-> kept[i].data]
             IN  Normal([success |-> Len(allErrors) = 0, data |-> allData,
                         errors |-> allErrors, details |-> results])

\* the schemas of the catalogue that are object schemas (z.object(...)), the
\* ones that have a shape to merge
ObjectSchemas == {"PairSchema", "DefaultSchema"}

\* combineSchemas(schemas): z.object({}).merge(schemas[0]) is an object schema
\* with the shape of schemas[0]; with no schemas[0] the merge raises a TypeError
combineSchemas(list) ==
    IF Len(list) = 0 THEN Throw(OtherError) ELSE Normal(list[1])

(***************************************************************************)
(* src/src/integrations/index.ts                                           *)
(***************************************************************************)
\* createNestValidationPipe(schema).transform(value)
nestPipeTransform(s, v) == validateOrThrow(s, v)

\* createTRPCInputValidator(schema)(input)
trpcInputValidator(s, v) == validateOrThrow(s, v)

(***************************************************************************)
(* src/src/middleware/express.ts                                           *)
(***************************************************************************)
Str(s) == [t |-> "string", s |-> s]

\* Number(string) for the header values in use: NaN unless a numeral
toNumber(s) ==
    CASE s = "1" -> [nan |-> FALSE, n |-> 1]
      [] s = "2" -> [nan |-> FALSE, n |-> 2]
      [] OTHER -> [nan |-> TRUE]

\* String.prototype.toLowerCase for the content types in use
toLowerCase(s) ==
    CASE s = "Application/JSON; charset=utf-8" -> "application/json; charset=utf-8"
      [] OTHER -> s

\* String.prototype.includes for the (lower-cased) content types in use
stringIncludes(s, sub) ==
    \/ sub = ""
    \/ s = sub
    \/ s = "application/json; charset=utf-8" /\ sub = "application/json"

\* loggers: an object with some of the methods warn, error, info, debug
Console == [name |-> "console", methods |-> {"warn", "error", "info", "debug"}]
ConfiguredLogger == [name |-> "configured", methods |-> {"warn", "error", "info", "debug"}]
OptionLoggers ==
    { [name |-> "unset", methods |-> {}],            \* options.logger not given
      [name |-> "partial", methods |-> {"error"}] }  \* a logger without warn

\* options = {}
NoOptions ==
    [stopOnError |-> FALSE, errorHandler |-> "none", maxBodyBytes |-> 0,
     allowedContentTypes |-> <<>>, logger |-> [name |-> "unset", methods |-> {}]]

\* `options.logger ?? logger`
activeLogger(opts, moduleLogger) ==
    IF opts.logger.name = "unset" THEN moduleLogger ELSE opts.logger

\* activeLogger.warn?.(message, meta): the call it makes, if any
warnCall(log, message, meta) ==
    IF "warn" \in log.methods
    THEN <<[logger |-> log.name, method |-> "warn", message |-> message, meta |-> meta]>>
    ELSE <<>>

\* an object literal with a correlationId property that may be undefined
withCorrelationId(rec, correlationId) ==
    IF correlationId.t = "undefined" THEN rec
    ELSE rec @@ [correlationId |-> correlationId.s]

\* sendProblem: res.status(problem.status ?? 400).json({success: false,
\* message: problem.title, ...problem})
sendProblem(problem) ==
    [status |-> IF "status" \in DOMAIN problem THEN problem.status ELSE 400,
     body |-> problem @@ [success |-> FALSE, message |-> problem.title]]

\* options.errorHandler(errors) of the handler in use
customProblem(errors) ==
    [title |-> "Invalid request", status |-> 422, extensions |-> [errors |-> errors]]

\* logger.error?.(message, meta): the call it makes, if any
errorCall(log, message, meta) ==
    IF "error" \in log.methods
    THEN <<[logger |-> log.name, method |-> "error", message |-> message, meta |-> meta]>>
    ELSE <<>>

\* what one run of a middleware does: the request it leaves, the responses
\* it sends, the next() calls and the logger calls it makes, and the values
\* it applied the schema to
Outcome(request, responses, nexts, logged, applied) ==
    [req |-> request, sent |-> responses, next |-> nexts, logs |-> logged,
     applied |-> applied]

\* req.headers?.[correlationIdHeader], with the default header name
correlationIdOf(request) == request.headers["x-request-id"]

\* variant: the limit is compared the other way round
exceedsLimitReversed(opts, request) ==
    LET contentLengthHeader == request.headers["content-length"]
        contentLength ==
            IF contentLengthHeader.t = "string" THEN toNumber(contentLengthHeader.s)
            ELSE [nan |-> TRUE]
    IN  opts.maxBodyBytes # 0 /\ ~contentLength.nan /\ contentLength.n < opts.maxBodyBytes

\* the payload-size test, lines 83-87
exceedsLimit(opts, request) ==
    LET contentLengthHeader == request.headers["content-length"]
        contentLength ==
            IF contentLengthHeader.t = "string" THEN toNumber(contentLengthHeader.s)
            ELSE [nan |-> TRUE]
    IN  opts.maxBodyBytes # 0 /\ ~contentLength.nan /\ contentLength.n > opts.maxBodyBytes

\* the content-type test, lines 100-105
contentTypeRejected(opts, request) ==
    LET contentType ==
            toLowerCase(IF request.headers["content-type"].t = "undefined" THEN ""
                        ELSE request.headers["content-type"].s)
        isAllowed ==
            \E i \in 1 .. Len(opts.allowedContentTypes) :
                stringIncludes(contentType, toLowerCase(opts.allowedContentTypes[i]))
    IN  Len(opts.allowedContentTypes) # 0 /\ ~isAllowed

\* the texts by which the four validators differ
ExpressTexts ==
    [body |-> [log |-> "Body validation failed",
               title |-> "Request validation failed",
               detail |-> "The request body failed validation",
               code |-> "schemas/body_validation_failed"],
     query |-> [log |-> "Query validation failed",
                title |-> "Query validation failed",
                detail |-> "The query parameters failed validation",
                code |-> "schemas/query_validation_failed"],
     params |-> [log |-> "Route parameters validation failed",
                 title |-> "Route parameter validation failed",
                 detail |-> "The route parameters failed validation",
                 code |-> "schemas/params_validation_failed"],
     headers |-> [log |-> "Header validation failed",
                  title |-> "Header validation failed",
                  detail |-> "The request headers failed validation",
                  code |-> "schemas/headers_validation_failed"]]

\* req.validationErrors || []
validationErrorsOf(request) ==
    IF "validationErrors" \in DOMAIN request THEN request.validationErrors ELSE <<>>

\* req.validated = req.validated || {}; req.validated[source] = value
withValidated(request, source, value) ==
    [validated |-> (source :> value)
                   @@ (IF "validated" \in DOMAIN request THEN request.validated ELSE <<>>)]
    @@ request

\* variant: next() is called after the error response was sent as well
validateSourceNextAfterSend(source, overwrite, s, opts, request, moduleLogger) ==
    LET correlationId == correlationIdOf(request)
        result == validate(s, request[source]).value
        texts == ExpressTexts[source]
    IN  IF ~result.success /\ "errors" \in DOMAIN result
        THEN LET logged ==
                     warnCall(activeLogger(opts, moduleLogger), texts.log,
                         withCorrelationId(
                             [errorCount |-> Len(result.errors),
                              fields |-> [i \in 1 .. Len(result.errors) |->
                                             result.errors[i].field]],
                             correlationId))
             IN  IF opts.stopOnError
                 THEN Outcome(request,
                          <<sendProblem(
                               IF opts.errorHandler # "none"
                               THEN customProblem(result.errors)
                               ELSE [type |-> "https://docs.kitium.ai/errors/validation_failed",
                                     title |-> texts.title,
                                     status |-> 400,
                                     detail |-> texts.detail,
                                     extensions |-> withCorrelationId(
                                         [code |-> texts.code,
                                          errors |-> result.errors], correlationId)])>>,
                          1, logged, <<request[source]>>)
                 ELSE Outcome(
                          [validationErrors |-> validationErrorsOf(request) \o result.errors]
                          @@ request,
                          <<>>, 1, logged, <<request[source]>>)
        ELSE IF "data" \in DOMAIN result /\ Truthy(result.data)
        THEN Outcome(
                 IF overwrite
                 THEN [withValidated(request, source, result.data) EXCEPT ![source] = result.data]
                 ELSE withValidated(request, source, result.data),
                 <<>>, 1, <<>>, <<request[source]>>)
        ELSE Outcome(request, <<>>, 1, <<>>, <<request[source]>>)

\* what the four validators do from `const result = validate(schema,
\* req.<source>)` on (lines 118-152, 170-204, 222-256, 274-307); validateHeaders
\* alone does not assign req.<source>
validateSource(source, overwrite, s, opts, request, moduleLogger) ==
    LET correlationId == correlationIdOf(request)
        result == validate(s, request[source]).value
        texts == ExpressTexts[source]
    IN  IF ~result.success /\ "errors" \in DOMAIN result
        THEN LET logged ==
                     warnCall(activeLogger(opts, moduleLogger), texts.log,
                         withCorrelationId(
                             [errorCount |-> Len(result.errors),
                              fields |-> [i \in 1 .. Len(result.errors) |->
                                             result.errors[i].field]],
                             correlationId))
             IN  IF opts.stopOnError
                 THEN Outcome(request,
                          <<sendProblem(
                               IF opts.errorHandler # "none"
                               THEN customProblem(result.errors)
                               ELSE [type |-> "https://docs.kitium.ai/errors/validation_failed",
                                     title |-> texts.title,
                                     status |-> 400,
                                     detail |-> texts.detail,
                                     extensions |-> withCorrelationId(
                                         [code |-> texts.code,
                                          errors |-> result.errors], correlationId)])>>,
                          0, logged, <<request[source]>>)
                 ELSE Outcome(
                          [validationErrors |-> validationErrorsOf(request) \o result.errors]
                          @@ request,
                          <<>>, 1, logged, <<request[source]>>)
        ELSE IF "data" \in DOMAIN result /\ Truthy(result.data)
        THEN Outcome(
                 IF overwrite
                 THEN [withValidated(request, source, result.data) EXCEPT ![source] = result.data]
                 ELSE withValidated(request, source, result.data),
                 <<>>, 1, <<>>, <<request[source]>>)
        ELSE Outcome(request, <<>>, 1, <<>>, <<request[source]>>)

\* the middleware returned by validateBody(schema, options), lines 78-153
validateBody(s, opts, request, moduleLogger) ==
    IF exceedsLimit(opts, request)
    THEN Outcome(request,
             <<sendProblem(
                  [type |-> "https://docs.kitium.ai/errors/payload_too_large",
                   title |-> "Payload too large",
                   status |-> 413,
                   detail |-> "The request body exceeds the configured limit.",
                   extensions |-> withCorrelationId(
                       [code |-> "schemas/body_size_exceeded"], correlationIdOf(request))])>>,
             0, <<>>, <<>>)
    ELSE IF contentTypeRejected(opts, request)
    THEN Outcome(request,
             <<sendProblem(
                  [type |-> "https://docs.kitium.ai/errors/unsupported_media_type",
                   title |-> "Unsupported content type",
                   status |-> 415,
                   detail |-> "Allowed content types: "
                              \o joinStrings(opts.allowedContentTypes, ", "),
                   extensions |-> withCorrelationId(
                       [code |-> "schemas/content_type_rejected"], correlationIdOf(request))])>>,
             0, <<>>, <<>>)
    ELSE validateSource("body", TRUE, s, opts, request, moduleLogger)

\* the middleware returned by validateQuery(schema, options), lines 166-205
validateQuery(s, opts, request, moduleLogger) ==
    validateSource("query", TRUE, s, opts, request, moduleLogger)

\* the middleware returned by validateParams(schema, options), lines 218-257
validateParams(s, opts, request, moduleLogger) ==
    validateSource("params", TRUE, s, opts, request, moduleLogger)

\* the middleware returned by validateHeaders(schema, options), lines 270-308
validateHeaders(s, opts, request, moduleLogger) ==
    validateSource("headers", FALSE, s, opts, request, moduleLogger)

\* the middleware returned by validationErrorHandler(), lines 321-346
validationErrorHandler(request, moduleLogger) ==
    IF "validationErrors" \in DOMAIN request /\ Len(request.validationErrors) > 0
    THEN Outcome(request,
             <<sendProblem(
                  [type |-> "https://docs.kitium.ai/errors/request_validation_failed",
                   title |-> "Request validation failed",
                   status |-> 400,
                   detail |-> "One or more request fields failed validation",
                   extensions |-> withCorrelationId(
                       [code |-> "schemas/request_validation_failed",
                        errors |-> request.validationErrors], correlationIdOf(request))])>>,
             0,
             errorCall(moduleLogger, "Request validation failed",
                 withCorrelationId(
                     [errorCount |-> Len(request.validationErrors),
                      errors |-> request.validationErrors], correlationIdOf(request))),
             <<>>)
    ELSE Outcome(request, <<>>, 1, <<>>, <<>>)

\* the sources in the order validateRequest and createValidationPlugin take
\* them
SourceOrder == <<"body", "query", "params", "headers">>

\* one validator of a route: the source it validates and its schema
Validator(source, s) == [source |-> source, schema |-> s]

\* variant: the validators are listed from headers back to body
validateRequestReversed(schemas) ==
    LET Given(source) == schemas[source] # "none"
        given == SelectSeq(<<"headers", "params", "query", "body">>, Given)
    IN  [i \in 1 .. Len(given) |-> Validator(given[i], schemas[given[i]])]

\* validateRequest(schemas, options): the validators of the sources that have
\* a schema ("none": the property is not set)
validateRequest(schemas) ==
    LET Given(source) == schemas[source] # "none"
        given == SelectSeq(SourceOrder, Given)
    IN  [i \in 1 .. Len(given) |-> Validator(given[i], schemas[given[i]])]

(***************************************************************************)
(* src/unnamed/part_008 (Fastify hooks for request validation)             *)
(***************************************************************************)
\* the texts by which the four hooks differ
FastifyTexts ==
    [body |-> [log |-> "Fastify body validation failed",
               message |-> "Request body validation failed"],
     query |-> [log |-> "Fastify query validation failed",
                message |-> "Query validation failed"],
     params |-> [log |-> "Fastify params validation failed",
                 message |-> "Route parameter validation failed"],
     headers |-> [log |-> "Fastify header validation failed",
                  message |-> "Header validation failed"]]

\* reply.status(code).send(payload)
reply(code, payload) == [status |-> code, body |-> payload]

\* variant: the hook records the errors and goes on although stopOnError is
\* set
hookSourceNeverStops(source, overwrite, s, opts, request, moduleLogger) ==
    LET correlationId == correlationIdOf(request)
        result == validate(s, request[source]).value
        texts == FastifyTexts[source]
    IN  IF ~result.success /\ "errors" \in DOMAIN result
        THEN Outcome(
                 [validationErrors |-> validationErrorsOf(request) \o result.errors]
                 @@ request,
                 <<>>, 0,
                 warnCall(activeLogger(opts, moduleLogger), texts.log,
                     withCorrelationId(
                         [errorCount |-> Len(result.errors),
                          fields |-> [i \in 1 .. Len(result.errors) |->
                                         result.errors[i].field]],
                         correlationId)),
                 <<request[source]>>)
        ELSE IF "data" \in DOMAIN result /\ Truthy(result.data)
        THEN Outcome(
                 IF overwrite
                 THEN [withValidated(request, source, result.data) EXCEPT ![source] = result.data]
                 ELSE withValidated(request, source, result.data),
                 <<>>, 0, <<>>, <<request[source]>>)
        ELSE Outcome(request, <<>>, 0, <<>>, <<request[source]>>)

\* what the four hooks do from `const result = validate(schema,
\* request.<source>)` on (lines 109-131, 150-172, 191-213, 232-253); the
\* headers hook alone does not assign request.<source>.  A hook has no next().
hookSource(source, overwrite, s, opts, request, moduleLogger) ==
    LET correlationId == correlationIdOf(request)
        result == validate(s, request[source]).value
        texts == FastifyTexts[source]
    IN  IF ~result.success /\ "errors" \in DOMAIN result
        THEN IF opts.stopOnError
             THEN Outcome(request,
                      <<reply(400, withCorrelationId(
                            [success |-> FALSE, message |-> texts.message,
                             errors |-> result.errors], correlationId))>>,
                      0, <<>>, <<request[source]>>)
             ELSE Outcome(
                      [validationErrors |-> validationErrorsOf(request) \o result.errors]
                      @@ request,
                      <<>>, 0,
                      warnCall(activeLogger(opts, moduleLogger), texts.log,
                          withCorrelationId(
                              [errorCount |-> Len(result.errors),
                               fields |-> [i \in 1 .. Len(result.errors) |->
                                              result.errors[i].field]],
                              correlationId)),
                      <<request[source]>>)
        ELSE IF "data" \in DOMAIN result /\ Truthy(result.data)
        THEN Outcome(
                 IF overwrite
                 THEN [withValidated(request, source, result.data) EXCEPT ![source] = result.data]
                 ELSE withValidated(request, source, result.data),
                 <<>>, 0, <<>>, <<request[source]>>)
        ELSE Outcome(request, <<>>, 0, <<>>, <<request[source]>>)

\* the hook returned by createBodyValidationHook(schema, options), lines 72-132
createBodyValidationHook(s, opts, request, moduleLogger) ==
    IF exceedsLimit(opts, request)
    THEN Outcome(request,
             <<reply(413, withCorrelationId(
                   [success |-> FALSE, message |-> "Payload too large",
                    code |-> "schemas/body_size_exceeded"], correlationIdOf(request)))>>,
             0, <<>>, <<>>)
    ELSE IF contentTypeRejected(opts, request)
    THEN Outcome(request,
             <<reply(415, withCorrelationId(
                   [success |-> FALSE, message |-> "Unsupported content type",
                    allowedContentTypes |-> opts.allowedContentTypes],
                   correlationIdOf(request)))>>,
             0, <<>>, <<>>)
    ELSE hookSource("body", TRUE, s, opts, request, moduleLogger)

\* the hook returned by createQueryValidationHook(schema, options), lines 145-173
createQueryValidationHook(s, opts, request, moduleLogger) ==
    hookSource("query", TRUE, s, opts, request, moduleLogger)

\* the hook returned by createParamsValidationHook(schema, options), lines 186-214
createParamsValidationHook(s, opts, request, moduleLogger) ==
    hookSource("params", TRUE, s, opts, request, moduleLogger)

\* the hook returned by createHeadersValidationHook(schema, options), lines 227-254
createHeadersValidationHook(s, opts, request, moduleLogger) ==
    hookSource("headers", FALSE, s, opts, request, moduleLogger)

\* createValidationPlugin(schemas, options): the preHandler hooks it adds, in
\* order, lines 303-315
createValidationPlugin(schemas) ==
    LET Given(source) == schemas[source] # "none"
        given == SelectSeq(SourceOrder, Given)
    IN  [i \in 1 .. Len(given) |-> Validator(given[i], schemas[given[i]])]

(***************************************************************************)
(* Arguments                                                               *)
(***************************************************************************)
RECURSIVE SeqsUpTo(_, _)
SeqsUpTo(S, n) ==
    IF n = 0 THEN {<<>>}
    ELSE LET shorter == SeqsUpTo(S, n - 1)
         IN  shorter \cup {Append(q, x) : q \in shorter, x \in S}

FieldChoices == {"a", "b", ""}
FieldsArgs == {NoFields} \cup {GivenFields(l) : l \in SeqsUpTo(FieldChoices, MaxFields)}
RuleLists == SeqsUpTo(RuleCatalogue, MaxRules)
\* the batches of at most MaxItems items: the empty one and those that end
\* with the value v
ItemLists(v) == {<<>>} \cup {Append(p, v) : p \in SeqsUpTo(Values, MaxItems - 1)}
ConditionNames == {"aNotAboveB", "bProvided", "isPositive", "never", "always"}
HeaderNames == {"content-length", "content-type", "x-request-id"}
RequestHeaders ==
    {h \in [HeaderNames -> {Undefined, Str("1"), Str("2"), Str("req-1"), Str("text/plain"),
                            Str("Application/JSON; charset=utf-8")}] :
        /\ h["content-length"] \in {Undefined, Str("1"), Str("2")}
        /\ h["content-type"] \in {Undefined, Str("text/plain"),
                                  Str("Application/JSON; charset=utf-8")}
        /\ h["x-request-id"] \in {Undefined, Str("req-1")}}
OptionsSet ==
    [stopOnError : BOOLEAN, errorHandler : {"none", "custom"}, maxBodyBytes : {0, 1},
     allowedContentTypes : {<<>>, <<"application/json">>}, logger : OptionLoggers]
\* the values given to the calls of one event loop
CallValues ==
    Numbers \cup {Null, [t |-> "object", a |-> Num(0), b |-> Num(0)],
                  [t |-> "object", a |-> Num(0), b |-> Undefined]}
Frameworks == {"express", "fastify"}
\* the options a route is built with: FastifyValidationOptions has no
\* errorHandler, and an errorHandler is only consulted under stopOnError
RouteOptions(fw) ==
    {o \in OptionsSet : o.errorHandler # "none" => (o.stopOnError /\ fw = "express")}
\* the headers of a request to a route with these options: the request
\* carries a request id, and the headers the hardening checks read are drawn
\* where the options make them matter
RouteHeaders(opts) ==
    {h \in RequestHeaders :
        /\ h["x-request-id"] = Str("req-1")
        /\ opts.maxBodyBytes = 0 => h["content-length"] = Undefined
        /\ Len(opts.allowedContentTypes) = 0 => h["content-type"] = Undefined}
\* the schemas and the bodies of the validated routes
RouteBodySchemas == {"NumberSchema", "PairSchema", "DefaultSchema", "ThrowingSchema"}
RouteBodies ==
    {Null, Num(0), [t |-> "object", a |-> Num(0), b |-> Num(0)],
     [t |-> "object", a |-> Num(0), b |-> Undefined]}
\* the schemas argument of validateRequest and createValidationPlugin, given
\* the schema s for the body
RouteSchemas(s) ==
    [body : {"none", s}, query : {"none", "PairSchema"}, params : {"none", "PairSchema"},
     headers : {"none", "DefaultSchema"}]
\* query, params and the validated part of the headers, given the schema
\* for them: an object the schema accepts and one it rejects
SourceValues(s) ==
    CASE s = "none" -> {[t |-> "object", a |-> Num(0), b |-> Num(0)]}
      [] s = "PairSchema" -> {[t |-> "object", a |-> Num(0), b |-> Num(0)],
                              [t |-> "object", a |-> Num(0 - 1), b |-> Num(0)]}
      [] OTHER -> {[t |-> "object", a |-> Num(0), b |-> Undefined],
                   [t |-> "object", a |-> Num(0 - 1), b |-> Num(0)]}
SchemaLists == SeqsUpTo(ObjectSchemas, MaxSchemas)
MapKeys == {"a", "b"}
MapEntries == [key : MapKeys, schema : Schemas]
\* the entries of a schema map: at most one entry per key, in insertion order
SchemaMaps ==
    {<<>>} \cup {<<e>> : e \in MapEntries}
           \cup {p \in MapEntries \X MapEntries : p[1].key # p[2].key}

(***************************************************************************)
(* Operations: Init draws the schema and the data, and one exported        *)
(* function is applied to them.  The functions keep no state between       *)
(* calls, so a call starts from the state Init describes.                  *)
(***************************************************************************)
Init ==
    /\ op = "none"
    /\ schema \in Schemas
    /\ data \in Values
    /\ fields = NoFields
    /\ rules = <<>>
    /\ ret = Normal(Undefined)
    /\ condCalls = <<>>
    /\ schemaMap = <<>>
    /\ condition = "always"
    /\ items = <<>>
    /\ stage = "idle"
    /\ options = NoOptions
    /\ logger = Console
    /\ req = [body |-> Null, headers |-> [h \in HeaderNames |-> Undefined]]
    /\ sent = <<>>
    /\ nextCalls = 0
    /\ logs = <<>>
    /\ handlerBody = Undefined
    /\ schemaList = <<>>
    /\ calls = <<>>
    /\ framework = "express"
    /\ route = <<>>
    /\ steps = <<>>

\* a call of an exported function that takes (schema, data) only
Call(name, completion) ==
    /\ op = "none"
    /\ op' = name
    /\ ret' = completion
    /\ UNCHANGED <<schema, data, fields, rules, condCalls, schemaMap, condition, items, expressVars, utilVars, asyncVars, routeVars>>

Validate == Call("validate", validate(schema, data))

ValidateOrThrow == Call("validateOrThrow", validateOrThrow(schema, data))

IsValid == Call("isValid", isValid(schema, data))

NestPipeTransform == Call("nestPipeTransform", nestPipeTransform(schema, data))

TRPCInputValidator == Call("trpcInputValidator", trpcInputValidator(schema, data))

\* the call runs to the await and hands back the unsettled promise
ValidateAsyncCall == Call("validateAsync", Pending)

\* the awaited parse has settled and the rest of the body runs
ValidateAsyncResume ==
    /\ op = "validateAsync"
    /\ ret = Pending
    /\ ret' = validateAsync(schema, data)
    /\ UNCHANGED <<op, schema, data, fields, rules, condCalls, schemaMap, condition, items, expressVars, utilVars, asyncVars, routeVars>>

PartialValidate(f) ==
    /\ op = "none"
    /\ op' = "partialValidate"
    /\ fields' = f
    /\ ret' = partialValidate(schema, data, f)
    /\ UNCHANGED <<schema, data, rules, condCalls, schemaMap, condition, items, expressVars, utilVars, asyncVars, routeVars>>

ValidateWithCrossFields(rs) ==
    /\ op = "none"
    /\ op' = "validateWithCrossFields"
    /\ rules' = rs
    /\ ret' = validateWithCrossFields(schema, data, rs)
    /\ condCalls' = crossFieldPass(schema, data, rs).calls
    /\ UNCHANGED <<schema, data, fields, schemaMap, condition, items, expressVars, utilVars, asyncVars, routeVars>>

\* formatValidationErrors applied to the errors validate reports (none on
\* success)
ErrorsOf(result) == IF "errors" \in DOMAIN result THEN result.errors ELSE <<>>

FormatValidationErrors ==
    Call("formatValidationErrors", formatValidationErrors(ErrorsOf(validate(schema, data).value)))

ValidateMultiple(m) ==
    /\ op = "none"
    /\ op' = "validateMultiple"
    /\ schemaMap' = m
    /\ ret' = validateMultiple(m, data)
    /\ UNCHANGED <<schema, data, fields, rules, condCalls, condition, items, expressVars, utilVars, asyncVars, routeVars>>

ValidateConditional(c) ==
    /\ op = "none"
    /\ op' = "validateConditional"
    /\ condition' = c
    /\ ret' = validateConditional(schema, data, c)
    /\ UNCHANGED <<schema, data, fields, rules, condCalls, schemaMap, items, expressVars, utilVars, asyncVars, routeVars>>

ValidateBatch(its) ==
    /\ op = "none"
    /\ op' = "validateBatch"
    /\ items' = its
    /\ ret' = validateBatch(schema, its)
    /\ UNCHANGED <<schema, data, fields, rules, condCalls, schemaMap, condition, expressVars, utilVars, asyncVars, routeVars>>

BatchValidator(its) ==
    /\ op = "none"
    /\ op' = "batchValidator"
    /\ items' = its
    /\ ret' = batchValidator(schema, its)
    /\ UNCHANGED <<schema, data, fields, rules, condCalls, schemaMap, condition, expressVars, utilVars, asyncVars, routeVars>>

\* validate(combineSchemas(list), data)
CombineSchemas(list) ==
    /\ op = "none"
    /\ op' = "combineSchemas"
    /\ schemaList' = list
    /\ ret' = IF combineSchemas(list).kind = "throw" THEN combineSchemas(list)
              ELSE validate(combineSchemas(list).value, data)
    /\ UNCHANGED <<schema, data, fields, rules, condCalls, schemaMap, condition, items,
                   expressVars, asyncVars, routeVars>>

Next ==
    \/ Validate
    \/ ValidateOrThrow
    \/ IsValid
    \/ NestPipeTransform
    \/ TRPCInputValidator
    \/ ValidateAsyncCall
    \/ ValidateAsyncResume
    \/ \E f \in FieldsArgs : PartialValidate(f)
    \/ \E rs \in RuleLists : ValidateWithCrossFields(rs)
    \/ FormatValidationErrors
    \/ \E m \in SchemaMaps : ValidateMultiple(m)
    \/ \E c \in ConditionNames : ValidateConditional(c)
    \/ \E its \in ItemLists(data) : ValidateBatch(its)
    \/ \E its \in ItemLists(data) : BatchValidator(its)
    \/ \E list \in SchemaLists : CombineSchemas(list)

Spec == Init /\ [][Next]_vars

(***************************************************************************)
(* An Express route `app.post(path, validateBody(schema, options),         *)
(* handler)`: the request goes through the middleware and, when the        *)
(* middleware calls next(), on to the route handler.                       *)
(***************************************************************************)
InitExpress ==
    /\ op = "none"
    /\ schema \in Schemas
    /\ data \in Values
    /\ fields = NoFields
    /\ rules = <<>>
    /\ ret = Normal(Undefined)
    /\ condCalls = <<>>
    /\ schemaMap = <<>>
    /\ condition = "always"
    /\ items = <<>>
    /\ stage = "request"
    /\ options \in OptionsSet
    /\ logger = Console
    /\ \E h \in RequestHeaders : req = [body |-> data, headers |-> h]
    /\ sent = <<>>
    /\ nextCalls = 0
    /\ logs = <<>>
    /\ handlerBody = Undefined
    /\ schemaList = <<>>
    /\ calls = <<>>
    /\ framework = "express"
    /\ route = <<>>
    /\ steps = <<>>

\* configureMiddlewareLogger(custom), at start-up
ConfigureMiddlewareLogger ==
    /\ stage = "request"
    /\ logger = Console
    /\ logger' = ConfiguredLogger
    /\ UNCHANGED <<coreVars, utilVars, asyncVars, routeVars, stage, options, req, sent, nextCalls, logs, handlerBody>>

ValidateBodyMiddleware ==
    /\ stage = "request"
    /\ LET out == validateBody(schema, options, req, logger)
       IN  /\ req' = out.req
           /\ sent' = sent \o out.sent
           /\ nextCalls' = nextCalls + out.next
           /\ logs' = logs \o out.logs
    /\ stage' = "middleware done"
    /\ UNCHANGED <<coreVars, utilVars, asyncVars, routeVars, options, logger, handlerBody>>

\* (req, res) => { res.json({ user: req.body }) }
RouteHandler ==
    /\ stage = "middleware done"
    /\ nextCalls > 0
    /\ handlerBody' = req.body
    /\ sent' = Append(sent, [status |-> 200, body |-> [user |-> req.body]])
    /\ stage' = "handled"
    /\ UNCHANGED <<coreVars, utilVars, asyncVars, routeVars, options, logger, req, nextCalls, logs>>

NextExpress ==
    \/ ConfigureMiddlewareLogger
    \/ ValidateBodyMiddleware
    \/ RouteHandler

SpecExpress == InitExpress /\ [][NextExpress]_vars

(***************************************************************************)
(* Concurrent validation: one event loop in which validateAsync calls on   *)
(* one schema are started, suspended at their await and resumed in any     *)
(* order, with validate calls made in between.                             *)
(***************************************************************************)
InitAsync ==
    /\ op = "none"
    /\ schema \in Schemas
    /\ data = Null
    /\ fields = NoFields
    /\ rules = <<>>
    /\ ret = Normal(Undefined)
    /\ condCalls = <<>>
    /\ schemaMap = <<>>
    /\ condition = "always"
    /\ items = <<>>
    /\ stage = "idle"
    /\ options = NoOptions
    /\ logger = Console
    /\ req = [body |-> Null, headers |-> [h \in HeaderNames |-> Undefined]]
    /\ sent = <<>>
    /\ nextCalls = 0
    /\ logs = <<>>
    /\ handlerBody = Undefined
    /\ schemaList = <<>>
    /\ calls = <<>>
    /\ framework = "express"
    /\ route = <<>>
    /\ steps = <<>>

AsyncStart(v) ==
    /\ Len(calls) < MaxCalls
    /\ calls' = startAsync(calls, schema, v)
    /\ UNCHANGED <<coreVars, expressVars, utilVars, routeVars>>

AsyncResume(i) ==
    /\ calls[i].ret = Pending
    /\ calls' = resumeAsync(calls, i)
    /\ UNCHANGED <<coreVars, expressVars, utilVars, routeVars>>

SyncCall(v) ==
    /\ Len(calls) < MaxCalls
    /\ calls' = callSync(calls, schema, v)
    /\ UNCHANGED <<coreVars, expressVars, utilVars, routeVars>>

NextAsync ==
    \/ \E v \in CallValues : AsyncStart(v)
    \/ \E i \in 1 .. Len(calls) : AsyncResume(i)
    \/ \E v \in CallValues : SyncCall(v)

SpecAsync == InitAsync /\ [][NextAsync]_vars

(***************************************************************************)
(* A validated route.  Express: `app.post(path, ...validateRequest(schemas,*)
(* options), validationErrorHandler(), handler)`; a middleware that calls   *)
(* next() hands the request to the next one, a middleware that does not    *)
(* ends the request.  Fastify: `fastify.register(createValidationPlugin(   *)
(* schemas, options))`; Fastify runs the preHandler hooks in order and then *)
(* the handler, and runs nothing more once a hook has sent the reply.      *)
(***************************************************************************)
InitRoute ==
    /\ op = "none"
    /\ schema \in RouteBodySchemas
    /\ data \in RouteBodies
    /\ fields = NoFields
    /\ rules = <<>>
    /\ ret = Normal(Undefined)
    /\ condCalls = <<>>
    /\ schemaMap = <<>>
    /\ condition = "always"
    /\ items = <<>>
    /\ stage = "route"
    /\ framework \in Frameworks
    /\ options \in RouteOptions(framework)
    /\ logger = Console
    /\ \E schemas \in RouteSchemas(schema) :
          /\ schemas.body = "none" => data = Null
          /\ route = IF framework = "express"
                     THEN validateRequest(schemas) \o <<Validator("errors", "none")>>
                     ELSE createValidationPlugin(schemas)
          /\ \E h \in RouteHeaders(options) :
             \E q \in SourceValues(schemas.query) :
             \E p \in SourceValues(schemas.params) :
             \E hv \in SourceValues(schemas.headers) :
                req = [body |-> data, query |-> q, params |-> p, headers |-> h @@ hv]
    /\ sent = <<>>
    /\ nextCalls = 0
    /\ logs = <<>>
    /\ handlerBody = Undefined
    /\ schemaList = <<>>
    /\ calls = <<>>
    /\ steps = <<>>

\* the middleware validateRequest built for one source
expressMiddleware(v, opts, request, moduleLogger) ==
    CASE v.source = "body" -> validateBody(v.schema, opts, request, moduleLogger)
      [] v.source = "query" -> validateQuery(v.schema, opts, request, moduleLogger)
      [] v.source = "params" -> validateParams(v.schema, opts, request, moduleLogger)
      [] v.source = "headers" -> validateHeaders(v.schema, opts, request, moduleLogger)

\* the hook createValidationPlugin added for one source
fastifyHook(v, opts, request, moduleLogger) ==
    CASE v.source = "body" -> createBodyValidationHook(v.schema, opts, request, moduleLogger)
      [] v.source = "query" -> createQueryValidationHook(v.schema, opts, request, moduleLogger)
      [] v.source = "params" -> createParamsValidationHook(v.schema, opts, request, moduleLogger)
      [] v.source = "headers" -> createHeadersValidationHook(v.schema, opts, request, moduleLogger)

\* the place in the route of the middleware that runs next
position == Len(steps) + 1

\* one middleware (hook) runs on the request
Run(out) ==
    /\ steps' = Append(steps, [source |-> route[position].source,
                               schema |-> route[position].schema,
                               before |-> req, out |-> out])
    /\ req' = out.req
    /\ sent' = sent \o out.sent
    /\ nextCalls' = nextCalls + out.next
    /\ logs' = logs \o out.logs
    /\ UNCHANGED <<coreVars, utilVars, asyncVars, options, logger, handlerBody, framework, route>>

ExpressValidator ==
    /\ framework = "express"
    /\ stage = "route"
    /\ position <= Len(route)
    /\ route[position].source # "errors"
    /\ LET out == expressMiddleware(route[position], options, req, logger)
       IN  /\ Run(out)
           /\ stage' = IF out.next > 0 THEN "route" ELSE "stopped"

ExpressErrorHandler ==
    /\ framework = "express"
    /\ stage = "route"
    /\ position <= Len(route)
    /\ route[position].source = "errors"
    /\ LET out == validationErrorHandler(req, logger)
       IN  /\ Run(out)
           /\ stage' = IF out.next > 0 THEN "route" ELSE "stopped"

FastifyHook ==
    /\ framework = "fastify"
    /\ stage = "route"
    /\ position <= Len(route)
    /\ LET out == fastifyHook(route[position], options, req, logger)
       IN  /\ Run(out)
           /\ stage' = IF Len(out.sent) = 0 THEN "route" ELSE "stopped"

\* the route handler: (req, res) => { res.json({ user: req.body }) }
Handler ==
    /\ stage = "route"
    /\ position > Len(route)
    /\ handlerBody' = req.body
    /\ sent' = Append(sent, [status |-> 200, body |-> [user |-> req.body]])
    /\ stage' = "handled"
    /\ UNCHANGED <<coreVars, utilVars, asyncVars, routeVars, options, logger, req, nextCalls, logs>>

NextRoute ==
    \/ ExpressValidator
    \/ ExpressErrorHandler
    \/ FastifyHook
    \/ Handler

SpecRoute == InitRoute /\ [][NextRoute]_vars

(***************************************************************************)
(* Properties                                                              *)
(***************************************************************************)
BaseResult == validate(schema, data).value
ParseCompletion == parse(schema, data)
Settled == ret.kind # "pending"

\* exactly one of {data, errors} is populated
ResultInvariant(r) ==
    IF r.success
    THEN "data" \in DOMAIN r /\ r.data # Undefined /\ "errors" \notin DOMAIN r
    ELSE /\ "errors" \in DOMAIN r
         /\ Len(r.errors) > 0
         /\ \A i \in 1 .. Len(r.errors) : r.errors[i].code # ""
         /\ "data" \notin DOMAIN r

SegmentText(seg) == IF seg.k = "key" THEN seg.s ELSE ToString(seg.i)

RECURSIVE Dotted(_)
Dotted(path) ==
    IF path = <<>> THEN ""
    ELSE IF Len(path) = 1 THEN SegmentText(path[1])
    ELSE Dotted(SubSeq(path, 1, Len(path) - 1)) \o "." \o SegmentText(path[Len(path)])

\* C2: when the schema rejects with a list of violations, validate returns
\* a failure with one error per violation, in order, whose field is the
\* dotted path ("" for the empty path), whose message is the violation's
\* message and whose code is the violation's kind.
C2_AllViolationsConverted ==
    (op = "validate" /\ ParseCompletion.kind = "throw" /\ IsZodError(ParseCompletion.exc)) =>
        LET issues == ParseCompletion.exc.errors
            r == ret.value
        IN  /\ ~r.success
            /\ Len(r.errors) = Len(issues)
            /\ \A i \in 1 .. Len(issues) :
                 /\ r.errors[i].field = Dotted(issues[i].path)
                 /\ r.errors[i].message = issues[i].message
                 /\ r.errors[i].code = issues[i].code

C2_Witness ==
    /\ op = "validate"
    /\ ~ret.value.success
    /\ Len(ret.value.errors) = 2
    /\ ret.value.errors[1].field = "b"
    /\ ret.value.errors[2].field = "range.0"

\* C3: validate never throws; when applying the schema raises something
\* that is not a violation list, validate returns the failure with the one
\* UNKNOWN_ERROR detail.
C3_UnknownErrorFallback ==
    op = "validate" =>
        /\ ret.kind = "normal"
        /\ (ParseCompletion.kind = "throw" /\ ~IsZodError(ParseCompletion.exc)) =>
             ret.value = [success |-> FALSE,
                          errors |-> <<[field |-> "unknown",
                                        message |-> "An unknown validation error occurred",
                                        code |-> "UNKNOWN_ERROR"]>>]

C3_Witness ==
    /\ op = "validate"
    /\ ParseCompletion = Throw(OtherError)
    /\ ret.kind = "normal"
    /\ ret.value.errors[1].code = "UNKNOWN_ERROR"

\* C4: validateOrThrow, and the pipes built on it, return the validated
\* data when validate succeeds and otherwise throw a ValidationError whose
\* errors are the details validate returns.
C4_ThrowsValidationError ==
    op \in {"validateOrThrow", "nestPipeTransform", "trpcInputValidator"} =>
        IF BaseResult.success
        THEN ret = Normal(BaseResult.data)
        ELSE /\ ret.kind = "throw"
             /\ ret.exc.name = "ValidationError"
             /\ ret.exc.errors = BaseResult.errors

\* C5: isValid never throws and equals validate(schema, data).success, also
\* when applying the schema raises something that is not a violation list.
C5_IsValidAgrees ==
    op = "isValid" => ret = Normal(BaseResult.success)

C5_Witness ==
    /\ op = "isValid"
    /\ ParseCompletion = Throw(OtherError)
    /\ ret = Normal(FALSE)

\* C6: the promise of validateAsync is never rejected, and for a schema
\* without asynchronous steps it is fulfilled with the result validate
\* returns for the same arguments.
C6_AsyncMatchesSync ==
    (op = "validateAsync" /\ Settled) =>
        /\ ret.kind = "fulfilled"
        /\ ~HasAsyncStep(schema) => ret.value = BaseResult

C6_Witness ==
    /\ op = "validateAsync"
    /\ ret.kind = "fulfilled"
    /\ ~HasAsyncStep(schema)
    /\ ParseCompletion = Throw(OtherError)
    /\ ret.value.errors[1].code = "UNKNOWN_ERROR"

\* C7: validateWithCrossFields succeeds exactly when validate succeeds and
\* the condition of every rule is true of the value.
C7_SuccessIffBaseAndRules ==
    op = "validateWithCrossFields" =>
        (ret.value.success <=>
            /\ BaseResult.success
            /\ \A i \in 1 .. Len(rules) : Condition(rules[i].condition, data))

RECURSIVE ExpectedCrossFieldErrors(_, _)
ExpectedCrossFieldErrors(rs, v) ==
    IF rs = <<>> THEN <<>>
    ELSE (IF Condition(Head(rs).condition, v) THEN <<>>
          ELSE [i \in 1 .. Len(Head(rs).fields) |->
                   [field |-> Head(rs).fields[i], message |-> Head(rs).message,
                    code |-> "CROSS_FIELD_VALIDATION_FAILED"]])
         \o ExpectedCrossFieldErrors(Tail(rs), v)

\* C8: when base validation succeeds, every rule's condition is evaluated
\* on the original input, and the errors are, for each rule in order whose
\* condition is false, one entry per name of its fields with the rule's
\* message and the code CROSS_FIELD_VALIDATION_FAILED.
C8_CrossFieldErrorsExact ==
    (op = "validateWithCrossFields" /\ BaseResult.success) =>
        /\ condCalls = [i \in 1 .. Len(rules) |-> [rule |-> i, arg |-> data]]
        /\ ret.value.errors = ExpectedCrossFieldErrors(rules, data)

\* C9: when base validation fails, no rule's condition is invoked and the
\* result is a failure with exactly the errors of validate and no data.
C9_BaseFailureSkipsRules ==
    (op = "validateWithCrossFields" /\ ~BaseResult.success) =>
        /\ condCalls = <<>>
        /\ ~ret.value.success
        /\ ret.value.errors = BaseResult.errors
        /\ "data" \notin DOMAIN ret.value

C9_Witness ==
    /\ op = "validateWithCrossFields"
    /\ ~BaseResult.success
    /\ Len(BaseResult.errors) = 2
    /\ Len(rules) = 2
    /\ \E i \in 1 .. Len(rules) : ~Condition(rules[i].condition, data)
    /\ ret.value.errors = BaseResult.errors

\* C10: with a non-empty fields list partialValidate reports success
\* exactly when the filtered error list is empty.
C10_SuccessIffFilteredEmpty ==
    (op = "partialValidate" /\ fields.given /\ Len(fields.list) > 0) =>
        (ret.value.success <=>
            ("errors" \notin DOMAIN ret.value \/ Len(ret.value.errors) = 0))

\* the entries of a list of errors whose field is in the set, in order
RECURSIVE ErrorsOnFields(_, _)
ErrorsOnFields(errs, names) ==
    IF errs = <<>> THEN <<>>
    ELSE (IF Head(errs).field \in names THEN <<Head(errs)>> ELSE <<>>)
         \o ErrorsOnFields(Tail(errs), names)

FieldsListed == fields.given /\ Len(fields.list) > 0
FieldSet == {fields.list[i] : i \in 1 .. Len(fields.list)}

DerivedResultInvariant(r) ==
    IF r.success
    THEN "data" \in DOMAIN r /\ ("errors" \in DOMAIN r => r.errors = <<>>)
    ELSE "errors" \in DOMAIN r /\ Len(r.errors) > 0 /\ "data" \notin DOMAIN r

\* C12: every result of partialValidate, validateMultiple and
\* validateWithCrossFields satisfies the Result invariant.
C12_DerivedResultInvariant ==
    op \in {"partialValidate", "validateMultiple", "validateWithCrossFields"} =>
        ret.kind = "normal" /\ DerivedResultInvariant(ret.value)

EntryResult(i) == validate(schemaMap[i].schema, property(data, schemaMap[i].key)).value

\* the errors of the failing entries from entry i on, each under its key
RECURSIVE ExpectedMultipleErrors(_)
ExpectedMultipleErrors(i) ==
    IF i > Len(schemaMap) THEN <<>>
    ELSE (IF EntryResult(i).success THEN <<>>
          ELSE [j \in 1 .. Len(EntryResult(i).errors) |->
                   [field |-> schemaMap[i].key \o "." \o EntryResult(i).errors[j].field,
                    message |-> EntryResult(i).errors[j].message,
                    code |-> EntryResult(i).errors[j].code]])
         \o ExpectedMultipleErrors(i + 1)

\* C13: validateMultiple validates value[key] against schemaMap[key] for
\* every key; it succeeds exactly when no key failed, and its errors are
\* the failing keys' errors in key order with the field prefixed "<key>.".
C13_MultipleErrorsByKey ==
    op = "validateMultiple" =>
        /\ ret.kind = "normal"
        /\ ret.value.success <=> \A i \in 1 .. Len(schemaMap) : EntryResult(i).success
        /\ ErrorsOf(ret.value) = ExpectedMultipleErrors(1)

C13_Witness ==
    /\ op = "validateMultiple"
    /\ Len(schemaMap) = 2
    /\ EntryResult(1).success
    /\ ~EntryResult(2).success
    /\ ~ret.value.success
    /\ ret.value.errors[1].field = "b."

\* C14: when every key succeeds, the data of validateMultiple has exactly
\* the keys of schemaMap, each holding the value validate returns for it.
C14_MultipleDataByKey ==
    (op = "validateMultiple" /\ \A i \in 1 .. Len(schemaMap) : EntryResult(i).success) =>
        /\ ret.value.success
        /\ DOMAIN ret.value.data = {schemaMap[i].key : i \in 1 .. Len(schemaMap)}
        /\ \A i \in 1 .. Len(schemaMap) : ret.value.data[schemaMap[i].key] = EntryResult(i).data

\* C15: validateConditional gives back the unmodified input as a success
\* when the condition is false of it, whatever the schema says, and gives
\* validate's result when the condition is true.
C15_ConditionalBypass ==
    op = "validateConditional" =>
        IF Condition(condition, data)
        THEN ret = Normal(BaseResult)
        ELSE ret = Normal([success |-> TRUE, data |-> data])

C15_Witness ==
    /\ op = "validateConditional"
    /\ ~Condition(condition, data)
    /\ ~BaseResult.success
    /\ ret.value.success
    /\ ret.value.data = data

ItemResult(i) == validate(schema, items[i]).value
ItemRaises(i) == parse(schema, items[i]).kind = "throw" /\ ~IsZodError(parse(schema, items[i]).exc)

\* the validated values of the accepted items from item i on
RECURSIVE ExpectedBatchData(_)
ExpectedBatchData(i) ==
    IF i > Len(items) THEN <<>>
    ELSE (IF ItemResult(i).success THEN <<ItemResult(i).data>> ELSE <<>>)
         \o ExpectedBatchData(i + 1)

\* the errors of item i, re-addressed under its position counted from 0
ExpectedItemErrors(i) ==
    IF ItemResult(i).success THEN <<>>
    ELSE [j \in 1 .. Len(ItemResult(i).errors) |->
             [field |-> ToString(i - 1) \o "." \o ItemResult(i).errors[j].field,
              message |-> ItemResult(i).errors[j].message,
              code |-> ItemResult(i).errors[j].code]]

RECURSIVE ExpectedBatchErrors(_)
ExpectedBatchErrors(i) ==
    IF i > Len(items) THEN <<>>
    ELSE ExpectedItemErrors(i) \o ExpectedBatchErrors(i + 1)

C17_BatchElementwise ==
    op = "validateBatch" =>
        /\ ret.kind = "normal"
        /\ Len(ret.value) = Len(items)
        /\ \A i \in 1 .. Len(items) : ret.value[i] = ItemResult(i)

C17_Witness ==
    /\ op = "validateBatch"
    /\ Len(items) = 2
    /\ ~ItemResult(1).success
    /\ ItemResult(2).success
    /\ ret.value[2].success

RuleName(i) ==
    CASE i = 1 -> "rule_0"
      [] i = 2 -> "rule_1"
      [] i = 3 -> "rule_2"
      [] OTHER -> "rule_" \o ToString(i - 1)

\* C18: in every result of validateWithCrossFields, fieldDependencies maps
\* "rule_<i>" to rules[i].fields for every index of the rule list and has
\* no other key.
C18_FieldDependencies ==
    op = "validateWithCrossFields" =>
        /\ DOMAIN ret.value.fieldDependencies = {RuleName(i) : i \in 1 .. Len(rules)}
        /\ \A i \in 1 .. Len(rules) :
             ret.value.fieldDependencies[RuleName(i)] = rules[i].fields

C18_Witness ==
    /\ op = "validateWithCrossFields"
    /\ ~BaseResult.success
    /\ Len(rules) = 2
    /\ rules[1] # rules[2]
    /\ ret.value.fieldDependencies["rule_1"] = rules[2].fields

FormattedErrors == ErrorsOf(BaseResult)

\* "<field>: <message>" of the first n errors, separated by "; "
RECURSIVE ExpectedText(_)
ExpectedText(n) ==
    IF n = 0 THEN ""
    ELSE IF n = 1 THEN FormattedErrors[1].field \o ": " \o FormattedErrors[1].message
    ELSE ExpectedText(n - 1) \o "; "
         \o FormattedErrors[n].field \o ": " \o FormattedErrors[n].message

\* C19: formatValidationErrors returns the "<field>: <message>" strings of
\* the errors in order joined by "; "; one error gives no separator and
\* the empty list gives "".
C19_FormatJoins ==
    op = "formatValidationErrors" =>
        /\ ret = Normal(ExpectedText(Len(FormattedErrors)))
        /\ FormattedErrors = <<>> => ret.value = ""

C19_Witness ==
    /\ op = "formatValidationErrors"
    /\ Len(FormattedErrors) = 2
    /\ ret.value = "a: Required; b: Number must be greater than or equal to 0"

\* C20: on a route guarded by validateBody(schema) without options the
\* handler is reached only for a request whose body passed validation, and
\* the req.body it finds is the validated data.
C20_HandlerSeesValidBody ==
    (stage = "handled" /\ options = NoOptions) =>
        BaseResult.success /\ handlerBody = BaseResult.data

\* C25: a value that the schema combineSchemas(schemas) accepts satisfies
\* every schema of the list
C25_CombinedEnforcesAll ==
    (op = "combineSchemas" /\ ret.kind = "normal" /\ ret.value.success) =>
        \A i \in 1 .. Len(schemaList) : validate(schemaList[i], data).value.success

\* C29: createBatchValidator(schema)(items) returns, and details[i] has the
\* success and the errors of validate(schema, items[i]), each field prefixed
\* by "<i>."
PrefixedErrors(errs, index) ==
    [k \in 1 .. Len(errs) |->
        [errs[k] EXCEPT !.field = ToString(index) \o "." \o errs[k].field]]

C29_BatchTreatsItemsAsValidate ==
    op = "batchValidator" =>
        /\ ret.kind = "normal"
        /\ Len(ret.value.details) = Len(items)
        /\ \A i \in 1 .. Len(items) :
              /\ ret.value.details[i].success = ItemResult(i).success
              /\ ret.value.details[i].errors
                     = PrefixedErrors(ErrorsOf(ItemResult(i)), i - 1)

\* C26: whatever calls ran before it or alongside it, a validate or
\* validateAsync call that has returned its result returned the result the
\* same call gives when it runs alone
AloneResult(fn, s, v) == IF fn = "validate" THEN validate(s, v) ELSE validateAsync(s, v)

ValidatorSteps == {k \in 1 .. Len(steps) : steps[k].source # "errors"}
\* what validate returns for the source as the validator found it
StepResult(k) == validate(steps[k].schema, steps[k].before[steps[k].source]).value
\* the validator went as far as applying the schema
Reached(k) == Len(steps[k].out.applied) > 0
StepFailed(k) == Reached(k) /\ ~StepResult(k).success
StepSucceeded(k) == Reached(k) /\ StepResult(k).success

\* C21: a validator that gets a failure from validate sends one response,
\* with a 4xx status and a body that has success: false and, as errors, the
\* list validate returned
C21_FailureResponse ==
    \A k \in ValidatorSteps :
        StepFailed(k) =>
            /\ Len(steps[k].out.sent) = 1
            /\ steps[k].out.sent[1].status \in 400 .. 499
            /\ steps[k].out.sent[1].body.success = FALSE
            /\ "errors" \in DOMAIN steps[k].out.sent[1].body
            /\ steps[k].out.sent[1].body.errors = StepResult(k).errors

\* two values with the same properties set to the same values
Props(v) == {key \in DOMAIN v \ {"t"} : v[key] # Undefined}
SameValue(x, y) ==
    IF x.t = "object" /\ y.t = "object"
    THEN Props(x) = Props(y) /\ \A key \in Props(x) : x[key] = y[key]
    ELSE x = y

\* C22: a validator that gets a success from validate leaves the validated
\* data in req.<source> and in req.validated[<source>]
C22_SuccessOverwrites ==
    \A k \in ValidatorSteps :
        StepSucceeded(k) =>
            /\ SameValue(steps[k].out.req[steps[k].source], StepResult(k).data)
            /\ "validated" \in DOMAIN steps[k].out.req
            /\ steps[k].source \in DOMAIN steps[k].out.req.validated
            /\ steps[k].out.req.validated[steps[k].source] = StepResult(k).data

\* the request declares a content-length greater than hardening.maxBodyBytes
TooLarge(k) ==
    LET declared == steps[k].before.headers["content-length"]
    IN  /\ options.maxBodyBytes # 0
        /\ declared.t = "string"
        /\ ~toNumber(declared.s).nan
        /\ toNumber(declared.s).n > options.maxBodyBytes
\* hardening.allowedContentTypes is non-empty and the content-type of the
\* request matches none of its entries
NoTypeAllowed(k) ==
    LET given == steps[k].before.headers["content-type"]
        contentType == toLowerCase(IF given.t = "undefined" THEN "" ELSE given.s)
    IN  /\ Len(options.allowedContentTypes) > 0
        /\ \A i \in 1 .. Len(options.allowedContentTypes) :
              ~stringIncludes(contentType, toLowerCase(options.allowedContentTypes[i]))
BodySteps == {k \in ValidatorSteps : steps[k].source = "body"}

C24_FailureLogged ==
    \A k \in ValidatorSteps :
        StepFailed(k) =>
            IF "warn" \in activeLogger(options, logger).methods
            THEN /\ Len(steps[k].out.logs) = 1
                 /\ steps[k].out.logs[1].logger = activeLogger(options, logger).name
                 /\ steps[k].out.logs[1].meta.errorCount = Len(StepResult(k).errors)
                 /\ steps[k].out.logs[1].meta.fields
                       = [i \in 1 .. Len(StepResult(k).errors) |-> StepResult(k).errors[i].field]
            ELSE steps[k].out.logs = <<>>

\* the errors of the sources of the request that fail their schema, from the
\* n-th validator of the route on, in the order body, query, params, headers
RECURSIVE AccumulatedErrors(_, _)
AccumulatedErrors(request, n) ==
    IF n > Len(route) THEN <<>>
    ELSE IF route[n].source = "errors" THEN AccumulatedErrors(request, n + 1)
    ELSE ErrorsOf(validate(route[n].schema, request[route[n].source]).value)
         \o AccumulatedErrors(request, n + 1)

\* the validators of the route are those of the sources with a schema, in
\* the order body, query, params, headers
SourceRank(source) ==
    CASE source = "body" -> 1 [] source = "query" -> 2 [] source = "params" -> 3
      [] source = "headers" -> 4 [] OTHER -> 5
RouteInOrder ==
    \A m \in 1 .. Len(route) : \A n \in 1 .. Len(route) :
        m < n => SourceRank(route[m].source) < SourceRank(route[n].source)

\* what C27 says of a request that has gone through its route
AccumulatesAndReports ==
    /\ RouteInOrder
    /\ Len(steps) = Len(route)
    /\ \A k \in ValidatorSteps : steps[k].out.next = 1 /\ steps[k].out.sent = <<>>
    /\ LET last == steps[Len(route)]
           accumulated == validationErrorsOf(last.before)
       IN  /\ accumulated = AccumulatedErrors(steps[1].before, 1)
           /\ IF Len(accumulated) > 0
              THEN /\ last.out.next = 0
                   /\ Len(last.out.sent) = 1
                   /\ last.out.sent[1].status = 400
                   /\ last.out.sent[1].body.extensions.errors = accumulated
              ELSE /\ last.out.next = 1
                   /\ last.out.sent = <<>>

\* C27 as stated: with stopOnError unset every validator of an Express route
\* calls next, req.validationErrors ends as the errors of the failing
\* sources in order, and validationErrorHandler answers 400 with them if
\* there are any and calls next otherwise
C27_AccumulatesAsStated ==
    (framework = "express" /\ ~options.stopOnError /\ stage # "route") =>
        AccumulatesAndReports

\* a hardening check of the body validator rejects the request
HardeningRejects ==
    /\ Len(steps) > 0
    /\ steps[1].source = "body"
    /\ (TooLarge(1) \/ NoTypeAllowed(1))

\* C27, amended: the same for the requests that no hardening check of the
\* body validator rejects
C27_AccumulatesUnlessHardened ==
    (framework = "express" /\ ~options.stopOnError /\ stage # "route"
        /\ ~HardeningRejects) =>
        AccumulatesAndReports

\* all four sources failed and validationErrorHandler answered
C27_Witness ==
    /\ framework = "express"
    /\ ~options.stopOnError
    /\ stage = "stopped"
    /\ Len(steps) = 5
    /\ \A k \in 1 .. 4 : StepFailed(k)
    /\ steps[5].out.sent[1].status = 400

\* C28: with stopOnError set, a validator that gets a failure from validate
\* sends one response, does not call next and leaves req.validationErrors and
\* req.validated as they were; nothing of the route runs after it
C28_StopsAtFirstFailure ==
    options.stopOnError =>
        \A k \in ValidatorSteps :
            StepFailed(k) =>
                /\ Len(steps[k].out.sent) = 1
                /\ steps[k].out.next = 0
                /\ Len(steps) = k
                /\ stage = "stopped"
                /\ sent = steps[k].out.sent
                /\ validationErrorsOf(steps[k].out.req) = validationErrorsOf(steps[k].before)
                /\ ("validationErrors" \in DOMAIN steps[k].out.req)
                      = ("validationErrors" \in DOMAIN steps[k].before)
                /\ ("validated" \in DOMAIN steps[k].out.req)
                      = ("validated" \in DOMAIN steps[k].before)
                /\ "validated" \in DOMAIN steps[k].before
                      => steps[k].out.req.validated = steps[k].before.validated

\* a Fastify hook stopped a request of which an earlier hook had validated a
\* source
C28_Witness ==
    /\ framework = "fastify"
    /\ options.stopOnError
    /\ Len(steps) >= 2
    /\ StepSucceeded(1)
    /\ StepFailed(Len(steps))
    /\ "validated" \in DOMAIN req
    /\ stage = "stopped"

\* C30: a run of an Express validation middleware either sends one response
\* and does not call next, or calls next once and sends nothing
C30_RespondsOrContinues ==
    framework = "express" =>
        \A k \in 1 .. Len(steps) :
            \/ Len(steps[k].out.sent) = 1 /\ steps[k].out.next = 0
            \/ Len(steps[k].out.sent) = 0 /\ steps[k].out.next = 1

\* validators called next, one of them after a failure, and
\* validationErrorHandler sent the response
C30_Witness ==
    /\ framework = "express"
    /\ Len(steps) >= 3
    /\ steps[Len(steps)].source = "errors"
    /\ Len(steps[Len(steps)].out.sent) = 1
    /\ \E k \in ValidatorSteps : StepFailed(k) /\ steps[k].out.next = 1
    /\ \E k \in ValidatorSteps : StepSucceeded(k) /\ steps[k].out.next = 1
====
